---- MODULE Spec2Model ----
(***************************************************************************)
(* stocksBackend (src/main.go): an HTTP backend that caches the daily      *)
(* price series of a market-data provider in one table, stock_data.        *)
(*                                                                         *)
(*   GET  /api/stocks/{symbol}?range=...   getStockDataHandler             *)
(*   POST /api/stocks/{symbol}/refresh     refreshStockDataHandler         *)
(*                                                                         *)
(* Both run fetchAndStoreData (the reconciliation pass).  Every request is *)
(* a goroutine of net/http; the only state the requests share is the       *)
(* table.  A step of the model is one interaction of a request with the    *)
(* database or with the provider, together with the local code that        *)
(* follows it.                                                             *)
(*                                                                         *)
(* Strings that the code compares or converts are sequences here: the date *)
(* "2024-01-0d" is <<d>>, and the text database/sql makes of a DATE that   *)
(* is scanned into a sql.NullString, "2024-01-0dT00:00:00Z", is <<d, 0>>.  *)
(* The column last_updated is written (now()) and read by no statement of  *)
(* the program; the model leaves it out.                                   *)
(***************************************************************************)
EXTENDS Integers, Sequences, FiniteSets, Bags, TLC

\* ---------------------------------------------------------------- bounds
\* Trading days 1..MaxDate.
MaxDate == 2
\* The greatest date of the tables a range query is run on.
MaxStored == 33

\* -------------------------------------------------------------- constants
MaxAttempts == 3
WeekLimit == 7
MonthLimit == 30
\* INTERVAL '6 months' and '1 year', counted in days of the model.
SixMonths == 1
OneYear == 2

Procs == {1, 2}
Symbols == {"AAPL", "MSFT"}
Dates == 1..MaxDate
Todays == 1..(MaxDate + OneYear)
Ranges == {"", "week", "month", "6month", "year", "decade"}


\* ------------------------------------------------------ provider payload
\* TimeSeriesDaily: date string -> five strings.
DateStr(d) == <<d>>
DateStrs == {DateStr(d) : d \in Dates}

Entry(o, h, l, c, v) == [open |-> o, high |-> h, low |-> l, close |-> c, volume |-> v]
Good1 == Entry("10", "10", "10", "10", "10")
Good2 == Entry("20", "20", "20", "20", "20")
BadOpen == Entry("abc", "10", "10", "10", "10")
BadHigh == Entry("10", "abc", "10", "10", "10")
BadLow == Entry("10", "10", "abc", "10", "10")
BadClose == Entry("10", "10", "10", "abc", "10")
BadVolume == Entry("10", "10", "10", "10", "abc")
FracVolume == Entry("10", "10", "10", "10", "1.5")
FracPrice == Entry("1.5", "1.5", "1.5", "1.5", "10")

\* The entries every date of a payload is drawn from, and the entries that
\* are only tried as the newest date of an otherwise well-formed payload.
Entries == {Good1, BadVolume}
RareEntries == {BadOpen, BadHigh, BadLow, BadClose, FracVolume, FracPrice}

EmptyPayload == [k \in {} |-> Good1]
Payloads ==
    UNION {[S -> Entries] : S \in SUBSET DateStrs}
    \cup {[k \in DateStrs |-> IF k = DateStr(MaxDate) THEN e ELSE Good1] : e \in RareEntries}

\* strconv.ParseFloat(s, 64): prices are kept in tenths.
ParseFloat(s) ==
    CASE s = "10" -> [ok |-> TRUE, val |-> 100]
      [] s = "20" -> [ok |-> TRUE, val |-> 200]
      [] s = "1.5" -> [ok |-> TRUE, val |-> 15]
      [] OTHER -> [ok |-> FALSE, val |-> 0]

\* strconv.Atoi(s)
Atoi(s) ==
    CASE s = "10" -> [ok |-> TRUE, val |-> 10]
      [] s = "20" -> [ok |-> TRUE, val |-> 20]
      [] OTHER -> [ok |-> FALSE, val |-> 0]

\* The five conversions of the loop body; each failure is a `continue`.
Parses(e) ==
    /\ ParseFloat(e.open).ok
    /\ ParseFloat(e.high).ok
    /\ ParseFloat(e.low).ok
    /\ ParseFloat(e.close).ok
    /\ Atoi(e.volume).ok

\* -------------------------------------------------------------- the table
\* stock_data is a bag of rows; PRIMARY KEY (date, symbol) is what the
\* statements below make of it.
Row(d, s, e) ==
    [date |-> d, symbol |-> s,
     open |-> ParseFloat(e.open).val, high |-> ParseFloat(e.high).val,
     low |-> ParseFloat(e.low).val, close |-> ParseFloat(e.close).val,
     volume |-> Atoi(e.volume).val]

SameKey(r, q) == r.date = q.date /\ r.symbol = q.symbol

RowsOf(tbl) == BagToSet(tbl)
RowsOfSymbol(tbl, s) == {r \in RowsOf(tbl) : r.symbol = s}
DatesOfSymbol(tbl, s) == {r.date : r \in RowsOfSymbol(tbl, s)}

\* The DATE a date string is stored as, and date.Format("2006-01-02").
ParseDate(ds) == ds[1]
FormatDate(d) == <<d>>

Restrict(tbl, keep) == [r \in {x \in DOMAIN tbl : keep[x]} |-> tbl[r]]

\* INSERT ... without a conflict clause on a table without the key.
PlainInsert(tbl, row) == tbl (+) SetToBag({row})

\* DELETE of the symbol's rows, then INSERT.
ReplaceAll(tbl, row) ==
    Restrict(tbl, [x \in DOMAIN tbl |-> x.symbol # row.symbol]) (+) SetToBag({row})

\* INSERT ... ON CONFLICT (date, symbol) DO NOTHING.
InsertIgnore(tbl, row) ==
    IF \E r \in RowsOf(tbl) : SameKey(r, row) THEN tbl ELSE tbl (+) SetToBag({row})

\* INSERT ... ON CONFLICT (date, symbol) DO UPDATE SET open = EXCLUDED.open, ...
Upsert(tbl, row) ==
    IF \E r \in RowsOf(tbl) : SameKey(r, row)
    THEN LET others == Restrict(tbl, [x \in DOMAIN tbl |-> ~SameKey(x, row)])
             hit == {x \in DOMAIN tbl : SameKey(x, row)}
             n == BagCardinality(Restrict(tbl, [x \in DOMAIN tbl |-> x \in hit]))
         IN others (+) [x \in {row} |-> n]
    ELSE tbl (+) SetToBag({row})

Max(S) == CHOOSE x \in S : \A y \in S : y <= x
Min2(a, b) == IF a <= b THEN a ELSE b

\* SELECT COUNT(*) FROM stock_data WHERE symbol = $1
CountRows(tbl, s) == BagCardinality(Restrict(tbl, [x \in DOMAIN tbl |-> x.symbol = s]))

\* SELECT MAX(date) FROM stock_data WHERE symbol = $1, scanned into a
\* sql.NullString: NULL, or the text of the timestamp of the date.
NullString == [Valid |-> FALSE, String |-> <<>>]
MaxDateOf(tbl, s) ==
    IF DatesOfSymbol(tbl, s) = {}
    THEN NullString
    ELSE [Valid |-> TRUE, String |-> <<Max(DatesOfSymbol(tbl, s)), 0>>]

\* Go's <= on strings: byte-wise, a proper prefix is the smaller one.
RECURSIVE StrLeq(_, _)
StrLeq(a, b) ==
    IF a = <<>> THEN TRUE
    ELSE IF b = <<>> THEN FALSE
    ELSE IF Head(a) < Head(b) THEN TRUE
    ELSE IF Head(a) > Head(b) THEN FALSE
    ELSE StrLeq(Tail(a), Tail(b))

\* if latestDate.Valid && dateStr <= latestDate.String { continue }
SkipDateStrict(latestDate, dateStr) ==
    latestDate.Valid /\ StrLeq(dateStr, latestDate.String) /\ dateStr # SubSeq(latestDate.String, 1, 1)

SkipDate(latestDate, dateStr) == latestDate.Valid /\ StrLeq(dateStr, latestDate.String)

\* What `continue` leaves of the dates still to iterate (a `break` leaves none).
Break(todo, dateStr) == {}

SkipContinue(todo, dateStr) == todo \ {dateStr}

ParseBreak(todo, dateStr) == {}

ParseContinue(todo, dateStr) == todo \ {dateStr}

ExecContinue(todo, dateStr) == todo \ {dateStr}

\* newRecords++ is reached only past the error check of stmt.Exec.
CountAttempts(n, ok) == n + 1

CountWritten(n, ok) == IF ok THEN n + 1 ELSE n

\* ORDER BY date DESC
RECURSIVE OrderDesc(_)
OrderDesc(S) ==
    IF S = {} THEN <<>>
    ELSE LET m == CHOOSE r \in S : \A x \in S : x.date <= r.date
         IN <<m>> \o OrderDesc(S \ {m})

NoLimit(seq, n) == seq

Limit(seq, n) == SubSeq(seq, 1, Min2(n, Len(seq)))

StockData(r) ==
    [date |-> FormatDate(r.date), open |-> r.open, high |-> r.high,
     low |-> r.low, close |-> r.close, volume |-> r.volume]

\* ------------------------------------------------------------------ state
VARIABLES
    table,      \* stock_data
    apiKey,     \* ALPHA_VANTAGE_API_KEY of the process environment
    upstream,   \* the provider: [fixed, doc]; when fixed, every fetch is answered with doc
    req,        \* per request slot: the request a goroutine is serving, and where it is
    base,       \* history: the table when a request last began with no other in flight,
                \* and whether a write has failed since
    snap,       \* history: the last pass that returned: its symbol, payload, rows, write failures
    crashed     \* history: the last pass the process died in: its symbol and the table before it

vars == <<table, apiKey, upstream, req, base, snap, crashed>>

NoBody == [kind |-> "none"]
NoErr == [attempt |-> 0, detail |-> "nil"]
NoSnap ==
    [valid |-> FALSE, kind |-> "none", symbol |-> "", data |-> EmptyPayload, rows |-> {},
     failed |-> FALSE]
NoCrash == [valid |-> FALSE, symbol |-> "", data |-> EmptyPayload, pre |-> EmptyBag, failed |-> FALSE]

Idle ==
    [pc |-> "idle", kind |-> "none", symbol |-> "", timeRange |-> "",
     count |-> 0, attempt |-> 0, err |-> NoErr, slept |-> 0, passErr |-> "",
     data |-> EmptyPayload, latestDate |-> NullString, todo |-> {}, newRecords |-> 0,
     status |-> 0, body |-> NoBody,
     \* history of the request
     passes |-> 0, passOk |-> FALSE, counted |-> FALSE, readq |-> FALSE, dbq |-> 0,
     wrote |-> {}, failed |-> FALSE, had |-> {}, upd |-> {},
     \* upstream requests made, those that failed, the outcome of the latest
     calls |-> 0, fails |-> 0, last |-> "none"]

Set(p, r) == req' = [req EXCEPT ![p] = r]

\* http.Error(w, msg, code) and return
Respond(r, code, b) == [r EXCEPT !.pc = "done", !.status = code, !.body = b]
ErrorBody(msg) == [kind |-> "error", msg |-> msg]

Quiet(p) == \A q \in Procs \ {p} : req[q].pc = "idle"
NoBase == [tbl |-> EmptyBag, dirty |-> FALSE]
Track(p) ==
    IF upstream.fixed /\ Quiet(p)
    THEN base' = [tbl |-> table, dirty |-> FALSE]
    ELSE UNCHANGED base

\* fetchAndStoreData, lines 238-241: the call, and the API key check.
\* `fail` is what the caller answers when the pass returns an error.
PassAnswered(r, msg) ==
    Respond([r EXCEPT !.passErr = msg], 200, [kind |-> "refreshed", newRecords |-> 0])

PassFailed(r, msg) ==
    LET e == [r EXCEPT !.passErr = msg]
    IN IF r.kind = "GET"
       THEN Respond(e, 500, ErrorBody("Failed to fetch initial data"))
       ELSE Respond(e, 500, ErrorBody(msg))

EnterPassUnchecked(r) == [r EXCEPT !.passes = @ + 1, !.pc = "fetch", !.attempt = 1]

EnterPass(r) ==
    LET c == [r EXCEPT !.passes = @ + 1]
    IN IF apiKey = ""
       THEN PassFailed(c, "missing API key configuration")
       ELSE [c EXCEPT !.pc = "fetch", !.attempt = 1]

\* The switch on timeRange of getStockDataHandler.
NoSuchRange(r) == Respond(r, 400, ErrorBody("Invalid time range specified"))

Switch(r) ==
    IF r.timeRange \in {"week", "month", "6month", "year"}
    THEN [r EXCEPT !.pc = "query"]
    ELSE NoSuchRange(r)

\* if count == 0 { fetchAndStoreData }
NeverPopulate(count) == FALSE

AlwaysPopulate(count) == TRUE

NeedsPopulate(count) == count = 0

\* if symbol == "", if timeRange == ""
NeverMissing(v) == FALSE

Missing(v) == v = ""

\* ---------------------------------------------------------------- actions
\* GET /api/stocks/{symbol}?range=timeRange: lines 105-122.
BeginGet(p, s, tr) ==
    /\ req[p].pc = "idle"
    /\ LET r == [Idle EXCEPT !.kind = "GET", !.symbol = s, !.timeRange = tr]
       IN IF Missing(s)
          THEN Set(p, Respond(r, 400, ErrorBody("Symbol is required")))
          ELSE IF Missing(tr)
          THEN Set(p, Respond(r, 400, ErrorBody("Range parameter is required")))
          ELSE Set(p, [r EXCEPT !.pc = "count"])
    /\ Track(p)
    /\ UNCHANGED <<table, apiKey, upstream, snap, crashed>>

\* SELECT COUNT(*) ..., lines 124-139, and the switch when no pass is run.
GetCount(p, ok) ==
    /\ req[p].pc = "count"
    /\ LET r == [req[p] EXCEPT !.dbq = @ + 1]
       IN IF ~ok
          THEN Set(p, Respond(r, 500, ErrorBody("Database error")))
          ELSE LET c == [r EXCEPT !.count = CountRows(table, r.symbol), !.counted = TRUE]
               IN IF NeedsPopulate(c.count)
                  THEN Set(p, EnterPass(c))
                  ELSE Set(p, Switch(c))
    /\ UNCHANGED <<table, apiKey, upstream, base, snap, crashed>>

\* POST /api/stocks/{symbol}/refresh: lines 221-224.
BeginRefresh(p, s) ==
    /\ req[p].pc = "idle"
    /\ Set(p, EnterPass([Idle EXCEPT !.kind = "POST", !.symbol = s]))
    /\ Track(p)
    /\ UNCHANGED <<table, apiKey, upstream, snap, crashed>>

\* fetchStockData: one attempt of the loop, lines 340-366, and what follows
\* the loop when it was the last one.
Serves(doc) == upstream.fixed => doc = upstream.doc

\* for attempt := 1; attempt <= 3; attempt++
OneMore(attempt) == attempt <= MaxAttempts + 1

Retry(attempt) == attempt <= MaxAttempts

FetchFail(p, detail) ==
    /\ req[p].pc = "fetch"
    /\ LET r == req[p]
           f == [r EXCEPT !.err = [attempt |-> r.attempt, detail |-> detail],
                          !.slept = @ + r.attempt,
                          !.attempt = @ + 1,
                          !.calls = @ + 1, !.fails = @ + 1, !.last = detail]
       IN IF Retry(f.attempt)
          THEN Set(p, f)
          ELSE Set(p, PassFailed(f, "failed to fetch stock data"))
    /\ UNCHANGED <<table, apiKey, upstream, base, snap, crashed>>

FetchEmptyFails(p, doc) ==
    /\ req[p].pc = "fetch"
    /\ Serves(doc)
    /\ LET r == [req[p] EXCEPT !.err = NoErr, !.data = doc, !.calls = @ + 1, !.last = "ok"]
       IN IF doc = EmptyPayload
          THEN Set(p, PassFailed(r, "no data"))
          ELSE Set(p, [r EXCEPT !.pc = "maxdate"])
    /\ UNCHANGED <<table, apiKey, upstream, base, snap, crashed>>

FetchOk(p, doc) ==
    /\ req[p].pc = "fetch"
    /\ Serves(doc)
    /\ Set(p, [req[p] EXCEPT !.err = NoErr, !.data = doc, !.pc = "maxdate",
                             !.calls = @ + 1, !.last = "ok"])
    /\ UNCHANGED <<table, apiKey, upstream, base, snap, crashed>>

\* SELECT MAX(date) ..., lines 252-256.
QueryMax(p, ok) ==
    /\ req[p].pc = "maxdate"
    /\ LET r == [req[p] EXCEPT !.dbq = @ + 1]
       IN IF ~ok
          THEN Set(p, PassFailed(r, "failed to query latest date"))
          ELSE Set(p, [r EXCEPT !.latestDate = MaxDateOf(table, r.symbol),
                                !.had = DatesOfSymbol(table, r.symbol),
                                !.pc = "prepare"])
    /\ UNCHANGED <<table, apiKey, upstream, base, snap, crashed>>

\* db.Prepare, lines 259-273, and the start of the range loop.
Prepare(p, ok) ==
    /\ req[p].pc = "prepare"
    /\ LET r == [req[p] EXCEPT !.dbq = @ + 1]
       IN IF ~ok
          THEN Set(p, PassFailed(r, "failed to prepare statement"))
          ELSE Set(p, [r EXCEPT !.pc = "loop", !.todo = DOMAIN r.data, !.newRecords = 0])
    /\ UNCHANGED <<table, apiKey, upstream, base, snap, crashed>>

\* One iteration of `for dateStr, stockData := range data.TimeSeriesDaily`
\* (lines 276-329); the map is iterated in any order.
LoopSkip(p, ds) ==
    /\ req[p].pc = "loop"
    /\ ds \in req[p].todo
    /\ SkipDate(req[p].latestDate, ds)
    /\ Set(p, [req[p] EXCEPT !.todo = SkipContinue(@, ds)])
    /\ UNCHANGED <<table, apiKey, upstream, base, snap, crashed>>

LoopParseFail(p, ds) ==
    /\ req[p].pc = "loop"
    /\ ds \in req[p].todo
    /\ ~SkipDate(req[p].latestDate, ds)
    /\ ~Parses(req[p].data[ds])
    /\ Set(p, [req[p] EXCEPT !.todo = ParseContinue(@, ds)])
    /\ UNCHANGED <<table, apiKey, upstream, base, snap, crashed>>

LoopExec(p, ds, ok) ==
    /\ req[p].pc = "loop"
    /\ ds \in req[p].todo
    /\ ~SkipDate(req[p].latestDate, ds)
    /\ Parses(req[p].data[ds])
    /\ LET r == [req[p] EXCEPT !.dbq = @ + 1]
           row == Row(ParseDate(ds), r.symbol, r.data[ds])
       IN IF ok
          THEN /\ table' = Upsert(table, row)
               /\ Set(p, [r EXCEPT !.todo = @ \ {ds},
                                   !.newRecords = CountWritten(@, ok),
                                   !.wrote = @ \cup {ds},
                                   !.upd = IF \E x \in RowsOf(table) : SameKey(x, row)
                                           THEN @ \cup {ds} ELSE @])
          ELSE /\ table' = table
               /\ Set(p, [r EXCEPT !.todo = ExecContinue(@, ds),
                                   !.newRecords = CountWritten(@, ok),
                                   !.failed = TRUE])
    /\ base' = IF upstream.fixed /\ ~ok THEN [base EXCEPT !.dirty = TRUE] ELSE base
    /\ UNCHANGED <<apiKey, upstream, snap, crashed>>

\* return newRecords, nil (line 331), and the caller's next lines.
PassReturn(p) ==
    /\ req[p].pc = "loop"
    /\ req[p].todo = {}
    /\ LET r == [req[p] EXCEPT !.passOk = TRUE]
       IN IF r.kind = "POST"
          THEN Set(p, Respond(r, 200, [kind |-> "refreshed", newRecords |-> r.newRecords]))
          ELSE Set(p, Switch(r))
    /\ snap' = IF upstream.fixed
               THEN [valid |-> TRUE, kind |-> req[p].kind,
                     symbol |-> req[p].symbol, data |-> req[p].data,
                     rows |-> RowsOfSymbol(table, req[p].symbol), failed |-> req[p].failed]
               ELSE snap
    /\ crashed' = IF crashed.valid /\ crashed.symbol = req[p].symbol THEN NoCrash ELSE crashed
    /\ UNCHANGED <<table, apiKey, upstream, base>>

\* db.Query of the range, lines 142-214.
RangeRows(tbl, s, tr, today) ==
    LET all == OrderDesc(RowsOfSymbol(tbl, s))
        since(n) == OrderDesc({r \in RowsOfSymbol(tbl, s) : r.date >= today - n})
    IN CASE tr = "week" -> Limit(all, WeekLimit)
         [] tr = "month" -> Limit(all, MonthLimit)
         [] tr = "6month" -> since(SixMonths)
         [] tr = "year" -> since(OneYear)

GetQuery(p, ok, today) ==
    /\ req[p].pc = "query"
    /\ LET r == [req[p] EXCEPT !.dbq = @ + 1, !.readq = TRUE]
       IN IF ~ok
          THEN Set(p, Respond(r, 500, ErrorBody("Database error")))
          ELSE LET rows == RangeRows(table, r.symbol, r.timeRange, today)
               IN Set(p, Respond(r, 200, [kind |-> "rows",
                                           rows |-> [i \in 1..Len(rows) |-> StockData(rows[i])]]))
    /\ UNCHANGED <<table, apiKey, upstream, base, snap, crashed>>

\* The response is written and the goroutine ends.
Finish(p) ==
    /\ req[p].pc = "done"
    /\ Set(p, Idle)
    /\ UNCHANGED <<table, apiKey, upstream, base, snap, crashed>>

\* The process dies in the middle of a batch and is started again.
Crash ==
    /\ \E p \in Procs : req[p].pc = "loop" /\ req[p].todo # {}
    /\ LET p == CHOOSE q \in Procs : req[q].pc = "loop" /\ req[q].todo # {}
       IN crashed' = [valid |-> TRUE, symbol |-> req[p].symbol, data |-> req[p].data,
                      pre |-> base.tbl, failed |-> base.dirty]
    /\ req' = [q \in Procs |-> Idle]
    /\ UNCHANGED <<table, apiKey, upstream, base, snap>>

\* What a completed pass leaves of a payload in an empty table: the table
\* of a symbol that was refreshed once before.
Stored(s, doc) == SetToBag({Row(ParseDate(ds), s, doc[ds]) : ds \in {k \in DOMAIN doc : Parses(doc[k])}})

\* The payloads and the symbol of the specifications with two requests in
\* flight.
FullDoc(e) == [k \in DateStrs |-> e]
PairDocs ==
    {FullDoc(Good1),
     [k \in DateStrs |-> IF k = DateStr(MaxDate) THEN BadVolume ELSE Good2]}
PairSymbols == {"AAPL"}

\* The steps of a request: of the reconciliation pass, and of the two handlers.
PassStep(p, docs, oks) ==
    \/ \E detail \in {"network", "503"} : FetchFail(p, detail)
    \/ \E doc \in docs : FetchOk(p, doc)
    \/ \E ok \in BOOLEAN : QueryMax(p, ok)
    \/ \E ok \in BOOLEAN : Prepare(p, ok)
    \/ \E ds \in DateStrs : LoopSkip(p, ds)
    \/ \E ds \in DateStrs : LoopParseFail(p, ds)
    \/ \E ds \in DateStrs, ok \in oks : LoopExec(p, ds, ok)
    \/ PassReturn(p)
    \/ Finish(p)

RefreshStep(p, syms, docs, oks) ==
    \/ \E s \in syms : BeginRefresh(p, s)
    \/ PassStep(p, docs, oks)

GetStep(p, syms, ranges) ==
    \/ \E s \in syms \cup {""}, tr \in ranges : BeginGet(p, s, tr)
    \/ \E ok \in BOOLEAN : GetCount(p, ok)
    \/ \E ok \in BOOLEAN, today \in Todays : GetQuery(p, ok, today)

Step(p, syms, ranges, docs) ==
    \/ GetStep(p, syms, ranges)
    \/ RefreshStep(p, syms, docs, BOOLEAN)

\* Spec: the server after initDB on an empty database, its requests served
\* one after the other, the provider answering with any payload.
Init ==
    /\ table = EmptyBag
    /\ apiKey \in {"", "key"}
    /\ upstream = [fixed |-> FALSE, doc |-> EmptyPayload]
    /\ req = [p \in Procs |-> Idle]
    /\ base = NoBase
    /\ snap = NoSnap
    /\ crashed = NoCrash

Next == Step(1, Symbols, Ranges, Payloads)

Spec == Init /\ [][Next]_vars

\* SpecConc: two refreshes in flight, interleaved at every database and
\* provider interaction (a GET writes through the same pass).
NextConc == \E p \in Procs : RefreshStep(p, PairSymbols, PairDocs, BOOLEAN)

SpecConc == Init /\ [][NextConc]_vars

\* SpecSeq: the table holds what an earlier pass stored, the provider
\* answers every fetch with the same payload, the requests are served one
\* after the other, and the process may die in the middle of a pass.
PriorDocs == UNION {[S -> {Good2}] : S \in SUBSET DateStrs}
SameDocs == UNION {[S -> Entries] : S \in SUBSET DateStrs}

InitSame ==
    /\ \E doc \in PriorDocs : table = Stored("AAPL", doc)
    /\ apiKey = "key"
    /\ \E doc \in SameDocs : upstream = [fixed |-> TRUE, doc |-> doc]
    /\ req = [p \in Procs |-> Idle]
    /\ base = [tbl |-> table, dirty |-> FALSE]
    /\ snap = NoSnap
    /\ crashed = NoCrash

NextSeq ==
    \/ RefreshStep(1, Symbols, SameDocs, BOOLEAN)
    \/ Crash

SpecSeq == InitSame /\ [][NextSeq]_vars

\* SpecPair: as SpecSeq without the crash, with two refreshes in flight and
\* no write failing.
NextPair == \E p \in Procs : RefreshStep(p, PairSymbols, SameDocs, {TRUE})

SpecPair == InitSame /\ [][NextPair]_vars

\* SpecRead: GET requests, one after the other, on a table that earlier
\* passes have filled: the symbol has a row of each date up to some day but
\* for the days the market was closed, and another symbol has rows too.
Closed(n) == {{}, {n - 1}, {n - 2, n - 1}}
Filled(n, gap) ==
    SetToBag({Row(d, "AAPL", Good1) : d \in (1..n) \ gap}
             \cup {Row(d, "MSFT", Good2) : d \in {n, n + 1}})
ReadTables == UNION {{Filled(n, gap) : gap \in Closed(n)} : n \in 1..MaxStored}
ReadTodays == MaxStored..(MaxStored + OneYear)

InitRead ==
    /\ table \in ReadTables
    /\ apiKey = "key"
    /\ upstream = [fixed |-> FALSE, doc |-> EmptyPayload]
    /\ req = [p \in Procs |-> Idle]
    /\ base = NoBase
    /\ snap = NoSnap
    /\ crashed = NoCrash

NextRead ==
    \/ \E s \in {"AAPL", ""}, tr \in Ranges : BeginGet(1, s, tr)
    \/ \E ok \in BOOLEAN : GetCount(1, ok)
    \/ \E ok \in BOOLEAN, today \in ReadTodays : GetQuery(1, ok, today)
    \/ Finish(1)

SpecRead == InitRead /\ [][NextRead]_vars

\* SpecEmpty: the requests served one after the other, the provider
\* answering every fetch with the same document, which may have no entry.
EmptyDocs ==
    {EmptyPayload, FullDoc(Good1),
     [k \in DateStrs |-> IF k = DateStr(MaxDate) THEN BadVolume ELSE Good1]}

InitEmpty ==
    /\ table \in {EmptyBag, Stored("MSFT", FullDoc(Good2))}
    /\ apiKey = "key"
    /\ \E doc \in EmptyDocs : upstream = [fixed |-> TRUE, doc |-> doc]
    /\ req = [p \in Procs |-> Idle]
    /\ base = [tbl |-> table, dirty |-> FALSE]
    /\ snap = NoSnap
    /\ crashed = NoCrash

NextEmpty == Step(1, Symbols, Ranges, EmptyDocs)

SpecEmpty == InitEmpty /\ [][NextEmpty]_vars

\* ================================================================ claims
\* What the claims speak of, said without the definitions of the model.
AtPassEnd(p) == req[p].pc = "loop" /\ req[p].todo = {}

\* A decimal number, an integer.
Numeric(str) == str \in {"10", "20", "1.5"}
Integral(str) == str \in {"10", "20"}
WellFormed(e) ==
    /\ Numeric(e.open) /\ Numeric(e.high) /\ Numeric(e.low) /\ Numeric(e.close)
    /\ Integral(e.volume)

\* The date is strictly greater than the maximum the pass read as stored.
Newer(r, ds) == \A d \in r.had : ParseDate(ds) > d

GoodNew(r) == {ds \in DOMAIN r.data : Newer(r, ds) /\ WellFormed(r.data[ds])}

Fields(r) == <<r.open, r.high, r.low, r.close, r.volume>>
Holds(tbl, s, ds, e) ==
    \E x \in RowsOf(tbl) :
        /\ x.symbol = s /\ x.date = ParseDate(ds)
        /\ Fields(x) = <<ParseFloat(e.open).val, ParseFloat(e.high).val, ParseFloat(e.low).val,
                         ParseFloat(e.close).val, Atoi(e.volume).val>>

NoDuplicate(tbl) ==
    \A x \in DOMAIN tbl : tbl[x] = 1 /\ \A y \in DOMAIN tbl : SameKey(x, y) => x = y

\* The table one uninterrupted pass without a failed write makes of tbl.
OnePass(tbl, s, doc) ==
    LET had == DatesOfSymbol(tbl, s)
        new == {ds \in DOMAIN doc : WellFormed(doc[ds]) /\ \A d \in had : ParseDate(ds) > d}
    IN tbl (+) SetToBag({Row(ParseDate(ds), s, doc[ds]) : ds \in new})

\* C1: a pass that follows a returned pass of the same symbol with the same
\* payload, none of whose writes failed, ends with the rows the first pass
\* left: the same keys and values, no duplicate.
Thm_C1 ==
    \A p \in Procs :
        (/\ AtPassEnd(p)
         /\ snap.valid /\ snap.symbol = req[p].symbol /\ snap.data = req[p].data
         /\ ~snap.failed)
        => /\ RowsOfSymbol(table, req[p].symbol) = snap.rows
           /\ NoDuplicate(table)

Wit_C1 ==
    \E p \in Procs :
        /\ AtPassEnd(p)
        /\ snap.valid /\ snap.symbol = req[p].symbol /\ snap.data = req[p].data
        /\ ~snap.failed
        /\ \E ds \in DOMAIN req[p].data :
               /\ WellFormed(req[p].data[ds])
               /\ Holds(table, req[p].symbol, ds, req[p].data[ds])
               /\ \E older \in DatesOfSymbol(base.tbl, req[p].symbol) : older < ParseDate(ds)
        /\ \E ds \in DOMAIN req[p].data : ~WellFormed(req[p].data[ds])

\* C2: the table never holds two records of one (date, symbol), and no step
\* takes a key out of the table.
Thm_C2 ==
    /\ [](NoDuplicate(table))
    /\ [][\A x \in RowsOf(table) : \E y \in RowsOf(table') : SameKey(x, y)]_vars

Wit_C2 ==
    \E p \in Procs, q \in Procs :
        /\ p # q
        /\ req[p].symbol = req[q].symbol
        /\ \E ds \in req[p].wrote \cap req[q].upd : req[p].data[ds] # req[q].data[ds]

\* C3: a step of a pass changes or adds only rows of its symbol whose date
\* is in the payload and strictly greater than the maximum date the pass
\* read as stored; the rows at or below that maximum stay as they are.
Thm_C3 ==
    [][\A p \in Procs :
         (req[p].pc = "loop" /\ req'[p] # req[p])
         => LET r == req[p]
            IN /\ \A x \in DOMAIN table :
                     (x.symbol # r.symbol \/ \E d \in r.had : x.date <= d)
                     => (x \in DOMAIN table' /\ table'[x] = table[x])
               /\ \A x \in DOMAIN table' :
                     (x \notin DOMAIN table \/ table'[x] # table[x])
                     => /\ x.symbol = r.symbol
                        /\ FormatDate(x.date) \in DOMAIN r.data
                        /\ Newer(r, FormatDate(x.date))]_vars

Wit_C3 ==
    \E p \in Procs :
        /\ req[p].pc = "loop"
        /\ req[p].wrote # {}
        /\ \E ds \in DOMAIN req[p].data \ req[p].todo :
               /\ ParseDate(ds) \in req[p].had
               /\ WellFormed(req[p].data[ds])
               /\ ~Holds(table, req[p].symbol, ds, req[p].data[ds])

\* C4 as claimed: when a pass without a failed write is over, every record
\* that was stored when the pass read the maximum date, and whose date the
\* payload holds with well-formed fields, has the values of the payload.
CE_C4 ==
    \A p \in Procs :
        (AtPassEnd(p) /\ ~req[p].failed)
        => \A ds \in DOMAIN req[p].data :
               (ParseDate(ds) \in req[p].had /\ WellFormed(req[p].data[ds]))
               => Holds(table, req[p].symbol, ds, req[p].data[ds])

\* C4, amended: a pass writes a date only if it is strictly greater than the
\* maximum date the pass read as stored; when such a write succeeds on a
\* record that is already stored (by a concurrent pass), the record has the
\* values of the payload, all of them, right after the write.
Thm_C4 ==
    [][\A p \in Procs : \A ds \in req'[p].wrote \ req[p].wrote :
         /\ Newer(req[p], ds)
         /\ (\E x \in RowsOf(table) : x.symbol = req[p].symbol /\ x.date = ParseDate(ds))
            => /\ Holds(table', req[p].symbol, ds, req[p].data[ds])
               /\ \A x \in RowsOf(table'), y \in RowsOf(table') : SameKey(x, y) => x = y]_vars

Wit_C4 ==
    \E p \in Procs, q \in Procs :
        /\ p # q
        /\ req[p].symbol = req[q].symbol
        /\ \E ds \in req[p].upd \cap req[q].wrote :
               /\ req[p].data[ds] # req[q].data[ds]
               /\ Holds(table, req[p].symbol, ds, req[p].data[ds])

\* C5 as claimed: the pass that is run again after the process died in a
\* pass of the same symbol and payload (no write failed in either) ends
\* with the table one uninterrupted pass would have made of the table the
\* interrupted pass began with.
CE_C5 ==
    \A p \in Procs :
        (/\ AtPassEnd(p) /\ ~req[p].failed
         /\ crashed.valid /\ crashed.symbol = req[p].symbol /\ crashed.data = req[p].data
         /\ ~crashed.failed)
        => RowsOfSymbol(table, req[p].symbol)
           = RowsOfSymbol(OnePass(crashed.pre, req[p].symbol, req[p].data), req[p].symbol)

\* C6: when two refreshes of one symbol, in flight together with the same
\* payload, have both gone through their dates, no write having failed,
\* the table has no duplicate and is the table one pass would have made of
\* the table the first of them began with.
Thm_C6 ==
    \A p \in Procs, q \in Procs :
        (/\ p # q
         /\ AtPassEnd(p) /\ AtPassEnd(q)
         /\ req[p].symbol = req[q].symbol /\ req[p].data = req[q].data
         /\ ~base.dirty)
        => /\ NoDuplicate(table)
           /\ table = OnePass(base.tbl, req[p].symbol, req[p].data)

Wit_C6 ==
    \E p \in Procs, q \in Procs :
        /\ p # q
        /\ AtPassEnd(p) /\ AtPassEnd(q)
        /\ req[p].symbol = req[q].symbol /\ req[p].data = req[q].data
        /\ ~base.dirty
        /\ req[p].upd # {} /\ req[q].wrote # {}
        /\ req[p].had # {}

\* C7: a GET that counted zero rows of its symbol has run one pass, and no
\* GET runs more than one; its range query is executed only after that
\* pass has returned.
Thm_C7 ==
    \A p \in Procs :
        req[p].kind = "GET"
        => /\ req[p].passes <= 1
           /\ (req[p].counted /\ req[p].count = 0) => req[p].passes = 1
           /\ (req[p].counted /\ req[p].count = 0 /\ (req[p].pc = "query" \/ req[p].readq))
              => req[p].passOk

Wit_C7 ==
    \E p \in Procs :
        /\ req[p].kind = "GET" /\ req[p].counted /\ req[p].count = 0
        /\ req[p].readq /\ req[p].status = 200
        /\ req[p].body.kind = "rows" /\ Len(req[p].body.rows) = MaxDate

\* C8 as claimed: a GET with a range token that is none of week, month,
\* 6month, year executes no database statement and is answered with 400.
UnknownRange(tr) == tr \notin {"", "week", "month", "6month", "year"}
CE_C8 ==
    \A p \in Procs :
        (req[p].kind = "GET" /\ req[p].symbol # "" /\ UnknownRange(req[p].timeRange))
        => /\ req[p].dbq = 0
           /\ req[p].pc = "done" => req[p].status = 400

\* C9: when a pass without a failed write has gone through its dates, the
\* dates it stored are the well-formed dates of the payload newer than the
\* maximum it read as stored, newRecords is their number, and no date with
\* a field that does not parse is in the table through this pass.
Thm_C9 ==
    \A p \in Procs :
        (AtPassEnd(p) /\ ~req[p].failed)
        => LET r == req[p]
           IN /\ r.wrote = GoodNew(r)
              /\ r.newRecords = Cardinality(GoodNew(r))
              /\ \A ds \in GoodNew(r) : Holds(table, r.symbol, ds, r.data[ds])
              /\ \A ds \in DOMAIN r.data :
                     (~WellFormed(r.data[ds]) /\ Newer(r, ds))
                     => ParseDate(ds) \notin DatesOfSymbol(table, r.symbol)

Wit_C9 ==
    \E p \in Procs :
        /\ AtPassEnd(p) /\ ~req[p].failed
        /\ \E ds \in DOMAIN req[p].data : ~WellFormed(req[p].data[ds]) /\ Newer(req[p], ds)
        /\ req[p].newRecords = Cardinality(DOMAIN req[p].data) - 1
        /\ req[p].newRecords >= 1

\* C10 as claimed: when a pass has gone through its dates, newRecords is the
\* number of dates whose write succeeded, and each of them is stored with
\* the values of the payload.
CE_C10 ==
    \A p \in Procs :
        AtPassEnd(p)
        => /\ req[p].newRecords = Cardinality(req[p].wrote)
           /\ \A ds \in req[p].wrote : Holds(table, req[p].symbol, ds, req[p].data[ds])

\* C10, amended: newRecords is the number of dates whose write succeeded in
\* the pass; each of them is a well-formed date newer than the maximum read,
\* holds the values of the payload right after its write, and is still
\* stored (with these or a concurrent pass's values) when the pass returns;
\* the refresh answers with that number.
Thm_C10 ==
    /\ [](\A p \in Procs :
            /\ req[p].pc = "loop"
               => /\ req[p].newRecords = Cardinality(req[p].wrote)
                  /\ req[p].wrote \subseteq GoodNew(req[p])
                  /\ \A ds \in req[p].wrote :
                         ParseDate(ds) \in DatesOfSymbol(table, req[p].symbol)
            /\ (req[p].pc = "done" /\ req[p].kind = "POST" /\ req[p].status = 200)
               => req[p].body.newRecords = Cardinality(req[p].wrote))
    /\ [][\A p \in Procs : \A ds \in req'[p].wrote \ req[p].wrote :
            Holds(table', req[p].symbol, ds, req[p].data[ds])]_vars

Wit_C10 ==
    \E p \in Procs, q \in Procs :
        /\ p # q
        /\ AtPassEnd(p)
        /\ req[p].symbol = req[q].symbol
        /\ \E ds \in req[p].wrote \cap req[q].wrote :
               ~Holds(table, req[p].symbol, ds, req[p].data[ds])
        /\ req[p].failed /\ req[p].newRecords = 1

\* fetchStockData has returned to the pass of the request.
FetchReturned(r) == r.calls > 0 /\ r.pc # "fetch"

\* C11: a fetch makes at most 3 upstream requests and none after one that
\* succeeded; when it has returned, its error is nil if and only if the
\* latest request succeeded (whatever failed before), and otherwise all 3
\* requests failed and the error carries attempt number 3 and the detail of
\* the third failure.
Thm_C11 ==
    /\ [](\A p \in Procs :
            LET r == req[p]
            IN /\ r.calls <= 3
               /\ r.last = "ok" => r.fails = r.calls - 1
               /\ FetchReturned(r)
                  => /\ r.err = NoErr <=> r.last = "ok"
                     /\ r.err # NoErr
                        => /\ r.calls = 3 /\ r.fails = 3
                           /\ r.last \in {"network", "503"}
                           /\ r.err = [attempt |-> 3, detail |-> r.last]
                           /\ r.pc = "done" /\ r.status = 500)
    /\ [][\A p \in Procs : req'[p].calls > req[p].calls => req[p].last # "ok"]_vars

Wit_C11 ==
    \E p \in Procs :
        /\ FetchReturned(req[p])
        /\ req[p].calls = 3 /\ req[p].fails = 2
        /\ req[p].last = "ok" /\ req[p].err = NoErr
        /\ req[p].pc = "loop" /\ req[p].wrote # {}

\* C12: when all 3 upstream requests of a request failed (with status 503,
\* or otherwise), the refresh and the GET that found no row of its symbol
\* are answered with status 500, the request has written no row, and none
\* of its steps has changed the table.
Thm_C12 ==
    /\ [](\A p \in Procs :
            req[p].fails = 3
            => /\ req[p].pc = "done" /\ req[p].status = 500
               /\ req[p].body.kind = "error"
               /\ req[p].wrote = {} /\ req[p].newRecords = 0)
    /\ [][\A p \in Procs :
            (req'[p].fails > req[p].fails \/ (req'[p] # req[p] /\ req'[p].pc \in {"count", "fetch"}))
            => table' = table]_vars

Wit_C12 ==
    \E p \in Procs :
        /\ req[p].kind = "GET" /\ req[p].counted /\ req[p].count = 0
        /\ req[p].fails = 3 /\ req[p].last = "503" /\ req[p].err.detail = "503"
        /\ req[p].status = 500
        /\ table # EmptyBag

\* C13 as claimed: a fetch waits only after a failed request that another
\* request follows, 1 unit after the first and 2 after the second, so that
\* a request whose 3 upstream requests all failed has waited 1 + 2 = 3
\* units.
CE_C13 ==
    \A p \in Procs :
        /\ req[p].fails = 3 => req[p].slept = 1 + 2
        /\ req[p].slept <= 1 + 2

\* C14: a pass that ends on a missing API key, on a fetch that failed after
\* its retries, or on a failed query of the maximum stored date returns an
\* error with count 0 and has written nothing, and no step of its request
\* has changed the table; with the key missing it has made no upstream
\* request and no database statement (the GET has run its row count only),
\* and after a failed fetch it has run no database statement either.
FatalErrors ==
    {"missing API key configuration", "failed to fetch stock data", "failed to query latest date"}
OwnQueries(r) == IF r.kind = "GET" THEN 1 ELSE 0

Thm_C14 ==
    /\ [](\A p \in Procs :
            LET r == req[p]
            IN /\ (r.passes = 1 /\ apiKey = "") => r.passErr = "missing API key configuration"
               /\ (r.fails = 3) => r.passErr = "failed to fetch stock data"
               /\ r.passErr \in FatalErrors
                  => /\ r.pc = "done" /\ r.status = 500 /\ r.body.kind = "error"
                     /\ r.newRecords = 0 /\ r.wrote = {} /\ ~r.passOk
               /\ r.passErr = "missing API key configuration"
                  => r.calls = 0 /\ r.dbq = OwnQueries(r)
               /\ r.passErr = "failed to fetch stock data"
                  => r.fails = 3 /\ r.dbq = OwnQueries(r)
               /\ r.passErr = "failed to query latest date"
                  => r.last = "ok" /\ r.dbq = OwnQueries(r) + 1)
    /\ [][\A p \in Procs :
            (req'[p] # req[p] /\ req'[p].passErr \in FatalErrors) => table' = table]_vars
    /\ [][\A p \in Procs :
            (req'[p] # req[p] /\ req[p].pc \in {"idle", "count", "fetch", "maxdate"})
            => table' = table]_vars

Wit_C14 ==
    \E p \in Procs :
        /\ req[p].kind = "POST"
        /\ req[p].passErr = "failed to query latest date"
        /\ req[p].status = 500
        /\ DatesOfSymbol(table, req[p].symbol) # {}
        /\ \E ds \in DOMAIN req[p].data :
               /\ WellFormed(req[p].data[ds])
               /\ \A d \in DatesOfSymbol(table, req[p].symbol) : ParseDate(ds) > d

\* C15: the rows a GET is answered with are rows of its symbol as stored,
\* in strictly descending order of date; for range week (month) they are
\* min(7, stored) (min(30, stored)) rows, and no stored row of the symbol
\* that is left out has a date above that of a row returned, whatever days
\* are missing between them.
Answered(r) == r.kind = "GET" /\ r.pc = "done" /\ r.status = 200 /\ r.body.kind = "rows"
Got(r) == {ParseDate(r.body.rows[i].date) : i \in 1..Len(r.body.rows)}
MostRecent(r, n) ==
    LET stored == DatesOfSymbol(table, r.symbol)
    IN /\ Len(r.body.rows) <= n
       /\ Len(r.body.rows) = IF Cardinality(stored) < n THEN Cardinality(stored) ELSE n
       /\ \A d \in stored \ Got(r) : \A g \in Got(r) : d < g

Thm_C15 ==
    \A p \in Procs :
        Answered(req[p])
        => LET r == req[p]
               rows == r.body.rows
           IN /\ \A i \in 1..Len(rows) : \A j \in 1..Len(rows) :
                     i < j => ParseDate(rows[i].date) > ParseDate(rows[j].date)
              /\ \A i \in 1..Len(rows) :
                     \E x \in RowsOfSymbol(table, r.symbol) :
                         /\ x.date = ParseDate(rows[i].date)
                         /\ Fields(x) = Fields(rows[i])
              /\ r.timeRange = "week" => MostRecent(r, 7)
              /\ r.timeRange = "month" => MostRecent(r, 30)

Wit_C15 ==
    \E p \in Procs :
        /\ Answered(req[p])
        /\ req[p].timeRange = "month"
        /\ Len(req[p].body.rows) = 30
        /\ Cardinality(DatesOfSymbol(table, req[p].symbol)) > 30
        /\ ParseDate(req[p].body.rows[1].date) - ParseDate(req[p].body.rows[30].date) > 29

\* C16: a GET without symbol or without range token is answered at once
\* with status 400: it runs no database statement, makes no upstream
\* request, enters no pass and writes no row, and its step leaves the table
\* as it is.
Incomplete(r) == r.kind = "GET" /\ (r.symbol = "" \/ r.timeRange = "")

Thm_C16 ==
    /\ [](\A p \in Procs :
            Incomplete(req[p])
            => /\ req[p].pc = "done" /\ req[p].status = 400 /\ req[p].body.kind = "error"
               /\ req[p].dbq = 0 /\ ~req[p].counted /\ ~req[p].readq
               /\ req[p].calls = 0 /\ req[p].passes = 0
               /\ req[p].wrote = {})
    /\ [][\A p \in Procs :
            (req'[p] # req[p] /\ (Incomplete(req[p]) \/ Incomplete(req'[p])))
            => table' = table]_vars

Wit_C16 ==
    \E p \in Procs :
        /\ Incomplete(req[p])
        /\ req[p].symbol # "" /\ req[p].timeRange = ""
        /\ req[p].status = 400
        /\ CountRows(table, req[p].symbol) = 0
        /\ table # EmptyBag

\* C17: no step, in any interleaving of the requests in flight, takes a
\* (date, symbol) key away from the table; the number of rows never falls,
\* and a symbol that has rows keeps having rows, its greatest stored date
\* never below what it was.
Keys(tbl) == {<<x.date, x.symbol>> : x \in RowsOf(tbl)}
Watermark(tbl, s) == Max(DatesOfSymbol(tbl, s))

Thm_C17 ==
    [][/\ Keys(table) \subseteq Keys(table')
       /\ BagCardinality(table') >= BagCardinality(table)
       /\ \A s \in Symbols :
              DatesOfSymbol(table, s) # {}
              => /\ DatesOfSymbol(table', s) # {}
                 /\ Watermark(table', s) >= Watermark(table, s)]_vars

Wit_C17 ==
    \E p \in Procs, q \in Procs :
        /\ p # q
        /\ req[p].pc = "loop" /\ req[q].pc = "loop"
        /\ req[p].symbol = req[q].symbol
        /\ req[p].upd # {} /\ req[q].wrote # {}
        /\ req[q].latestDate.Valid
        /\ Keys(table) = {<<d, req[p].symbol>> : d \in Dates}
        /\ DatesOfSymbol(table, req[p].symbol) # req[q].had

\* C18: a GET whose row count found at least one row of its symbol enters
\* no pass, makes no upstream request and writes no row, whatever its range
\* token, and none of its steps changes the table.
CacheHit(r) == r.kind = "GET" /\ r.counted /\ r.count >= 1

Thm_C18 ==
    /\ [](\A p \in Procs :
            CacheHit(req[p])
            => /\ req[p].passes = 0 /\ req[p].calls = 0
               /\ req[p].wrote = {} /\ req[p].newRecords = 0
               /\ req[p].pc \in {"query", "done"})
    /\ [][\A p \in Procs :
            (req'[p] # req[p] /\ (CacheHit(req[p]) \/ CacheHit(req'[p])))
            => table' = table]_vars

Wit_C18 ==
    \E p \in Procs :
        /\ CacheHit(req[p])
        /\ req[p].timeRange = "year"
        /\ req[p].readq /\ req[p].status = 200
        /\ req[p].body.kind = "rows" /\ Len(req[p].body.rows) >= 1
        /\ req[p].count = MaxDate
        /\ apiKey = "key"

\* C19: when the provider answers a fetch with a document without entries,
\* the pass goes on (it fails on a database error only), returns count 0
\* and no error, and no step of it changes the table; the GET that ran it
\* for a symbol without rows is answered 200 with no row (unless its range
\* token is unknown or its query fails); and a GET of a symbol whose last
\* returned pass got such a document and left no row counts zero rows and
\* runs a pass again.
GotEmpty(r) == r.last = "ok" /\ r.data = EmptyPayload
KnownRange(tr) == tr \in {"week", "month", "6month", "year"}

Thm_C19 ==
    /\ [](\A p \in Procs :
            LET r == req[p]
            IN /\ GotEmpty(r)
                  => /\ r.passErr \in {"", "failed to query latest date",
                                       "failed to prepare statement"}
                     /\ r.newRecords = 0 /\ r.wrote = {} /\ ~r.failed
                     /\ (r.pc = "done" /\ r.passErr = "") => r.passOk
               /\ (GotEmpty(r) /\ r.passOk /\ r.pc = "done")
                  => /\ r.kind = "POST"
                        => r.status = 200 /\ r.body = [kind |-> "refreshed", newRecords |-> 0]
                     /\ (r.kind = "GET" /\ KnownRange(r.timeRange))
                        => \/ r.status = 200 /\ r.body = [kind |-> "rows", rows |-> <<>>]
                           \/ r.status = 500 /\ r.body = ErrorBody("Database error")
               /\ (/\ r.kind = "GET" /\ r.counted
                   /\ snap.valid /\ snap.symbol = r.symbol
                   /\ snap.data = EmptyPayload /\ snap.rows = {})
                  => r.count = 0 /\ r.passes = 1)
    /\ [][\A p \in Procs :
            (req'[p] # req[p] /\ (GotEmpty(req[p]) \/ GotEmpty(req'[p])))
            => table' = table]_vars

Wit_C19 ==
    \E p \in Procs :
        /\ req[p].kind = "GET" /\ req[p].counted /\ req[p].count = 0
        /\ req[p].passes = 1 /\ ~req[p].passOk
        /\ GotEmpty(req[p]) /\ req[p].pc = "maxdate"
        /\ snap.valid /\ snap.kind = "GET" /\ snap.symbol = req[p].symbol
        /\ snap.data = EmptyPayload /\ snap.rows = {}
        /\ table # EmptyBag

====
